---- MODULE Spec2Model ----
(***************************************************************************)
(* Sampling-and-logging pipeline of fs_helpers.c: oversampled ADC reads,   *)
(* the thermistor CSV append log, the simulated CSV append log, the        *)
(* potentiometer run of app_main, the byte-exact CSV export and the file   *)
(* print.  Files and the serial output are sequences of                    *)
(* bytes (0..255); a FILE stream is a handle with a user-space buffer      *)
(* that reaches the store at fflush and fclose.                            *)
(***************************************************************************)
EXTENDS Integers, Sequences, FiniteSets, TLC

(***************************************************************************)
(* Program constants                                                       *)
(***************************************************************************)
ADC_BITS == 12
ADC_MAX == (2 ^ ADC_BITS) - 1
SAMPLES == 8
SAMPLE_PERIOD_MS == 2000
ChunkSize == 256
LineSize == 128
\* the largest long of the ILP32 targets the driver headers belong to
LONG_MAX == 2147483647
\* esp_vfs_spiffs_conf_t.max_files: files the mount lets be open at once
max_files == 8

LOG_PATH == "/spiffs/potdata.csv"
TEMP_PATH == "/spiffs/thermodata.csv"
ADC_CH_POT == "ADC_CHANNEL_3"
ADC_CH_THERMISTOR == "ADC_CHANNEL_4"

(***************************************************************************)
(* Bounds of the model                                                     *)
(***************************************************************************)
\* append calls (log_csv_sample, log_thermistor_samples_csv) per behaviour
MaxAppends == 2
\* conversions the peripheral may fail within one averaging call
MaxFaults == 1
\* largest count of a direct adc_read_avg call
MaxCount == 3
\* direct calls of adc_oneshot_setup per behaviour
MaxSetups == 2

Paths == {TEMP_PATH}
\* the files of the mount
Store == Paths \cup {LOG_PATH}
Channels == {ADC_CH_POT, ADC_CH_THERMISTOR}
\* row counts handed to log_thermistor_samples_csv
ThermSamples == {0, 1, 2}
\* row counts handed to log_pot_samples_csv
PotSamples == {0, 1, 3}
\* row counts handed to log_csv_sample: 13 + 14 rows make 256 bytes
CsvSamples == {0, 1, 13, 14}
\* inter-sample periods handed to log_thermistor_samples_csv
Periods == {SAMPLE_PERIOD_MS}
\* raw codes the peripheral delivers on each channel
RawCodes(ch) == IF ch = ADC_CH_THERMISTOR THEN {ADC_MAX} ELSE {0, 1, ADC_MAX}

\* a path with no file behind it
NoFile == [exists |-> FALSE, data |-> <<>>]
NoPath == "none"

(***************************************************************************)
(* Text formatting (printf conversions), as bytes                          *)
(***************************************************************************)
\* "index,temperature_C\n"
HeaderLine ==
  <<105, 110, 100, 101, 120, 44, 116, 101, 109, 112, 101, 114, 97, 116,
    117, 114, 101, 95, 67, 10>>

\* the error CSV with LF line endings, like the append paths
ErrorCsv_LF ==
  <<101, 114, 114, 111, 114, 44, 109, 101, 115, 115, 97, 103, 101, 10,
    44, 67, 111, 117, 108, 100, 32, 110, 111, 116, 32, 111, 112, 101, 110,
    32, 102, 105, 108, 101, 10>>

\* "error,message\r\n,Could not open file\r\n"
ErrorCsv ==
  <<101, 114, 114, 111, 114, 44, 109, 101, 115, 115, 97, 103, 101, 13, 10,
    44, 67, 111, 117, 108, 100, 32, 110, 111, 116, 32, 111, 112, 101, 110,
    32, 102, 105, 108, 101, 13, 10>>

RECURSIVE DecDigits(_)
\* the decimal digits of n >= 0, most significant first
DecDigits(n) ==
  IF n < 10 THEN <<48 + n>> ELSE DecDigits(n \div 10) \o <<48 + (n % 10)>>

\* printf("%d", n)
FmtInt(n) == IF n < 0 THEN <<45>> \o DecDigits(0 - n) ELSE DecDigits(n)

\* printf("%.2f", c / 100) for a value given in hundredths
FmtFixed2(c) ==
  LET a == IF c < 0 THEN 0 - c ELSE c
  IN  (IF c < 0 THEN <<45>> ELSE <<>>) \o DecDigits(a \div 100) \o <<46>>
        \o <<48 + ((a \div 10) % 10), 48 + (a % 10)>>

(***************************************************************************)
(* Thermistor Beta equation.  The binary32 expression                      *)
(*   VRT = raw*Vin/ADC_MAX; RT = R_fixed*VRT/(Vin-VRT);                    *)
(*   T = 1/(1/T0 + logf(RT/R0)/B) - 273.15                                 *)
(* evaluated at the averaged codes k*ADC_MAX \div SAMPLES, k = 0..SAMPLES, *)
(* rounded as "%.2f" prints it, in hundredths of a degree Celsius.  At     *)
(* raw = 0 logf(0) = -inf and at raw = ADC_MAX RT = +inf; both give        *)
(* T_kelvin = 0 and print as -273.15.                                      *)
(***************************************************************************)
TemperatureCenti(raw) ==
  CASE raw = 0    -> -27315
    [] raw = 511  -> 7639
    [] raw = 1023 -> 5199
    [] raw = 1535 -> 3697
    [] raw = 2047 -> 2501
    [] raw = 2559 -> 1394
    [] raw = 3071 -> 218
    [] raw = 3583 -> -1318
    [] raw = 4095 -> -27315

(***************************************************************************)
(* The voltage step in binary32.  A positive float is [m, e] with          *)
(* 2^23 <= m < 2^24 and value m * 2^e; zero is [m |-> 0, e |-> 0].         *)
(* Results are rounded to nearest, ties to even.  Products are formed in   *)
(* two 12-bit limbs so that no intermediate value leaves 31 bits.          *)
(***************************************************************************)
RECURSIVE BitLen(_)
\* the number of bits of n >= 0
BitLen(n) == IF n = 0 THEN 0 ELSE 1 + BitLen(n \div 2)

\* the float with value q * 2^e for 0 <= q <= 2^24
F32Norm(q, e) ==
  IF q = 0
    THEN [m |-> 0, e |-> 0]
    ELSE IF q = 2 ^ 24
           THEN [m |-> 2 ^ 23, e |-> e + 1]
           ELSE [m |-> q * (2 ^ (24 - BitLen(q))), e |-> e - (24 - BitLen(q))]

\* rounding toward zero: the discarded part never rounds up
RoundsUp_Never(q, r, half) == FALSE

\* round to nearest, ties to even: whether quotient q with discarded part r
\* (half being one half of the unit) is rounded up
RoundsUp(q, r, half) == r > half \/ (r = half /\ q % 2 = 1)

\* 3.3f
Vin == [m |-> 13841203, e |-> -22]

\* (float)n * x for 0 <= n < 2^12
F32MulInt(n, x) ==
  LET lo == n * (x.m % 4096)
      H == (n * (x.m \div 4096)) + (lo \div 4096)
      L == lo % 4096
      s == BitLen(H) - 12
  IN  IF s <= 0
        THEN F32Norm((H * 4096) + L, x.e)
        ELSE LET q == IF s = 13 THEN H \div 2
                               ELSE (H * (2 ^ (12 - s))) + (L \div (2 ^ s))
                 r == IF s = 13 THEN ((H % 2) * 4096) + L ELSE L % (2 ^ s)
             IN  F32Norm(IF RoundsUp(q, r, 2 ^ (s - 1)) THEN q + 1 ELSE q,
                         x.e + s)

RECURSIVE LongDiv(_, _, _, _)
\* k more bits of the quotient q, remainder r, of a division by d
LongDiv(q, r, d, k) ==
  IF k = 0
    THEN [q |-> q, r |-> r]
    ELSE IF 2 * r >= d
           THEN LongDiv((2 * q) + 1, (2 * r) - d, d, k - 1)
           ELSE LongDiv(2 * q, 2 * r, d, k - 1)

\* x / y for y > 0
F32Div(x, y) ==
  IF x.m = 0
    THEN x
    ELSE LET k == IF x.m >= y.m THEN 23 ELSE 24
             d == LongDiv(x.m \div y.m, x.m % y.m, y.m, k)
             up == RoundsUp(d.q, 2 * d.r, y.m)
         IN  F32Norm(IF up THEN d.q + 1 ELSE d.q, x.e - y.e - k)

\* float VRT = ((float)raw * Vin) / (float)ADC_MAX
VRT(raw) == F32Div(F32MulInt(raw, Vin), F32Norm(ADC_MAX, 0))

\* whether (Vin - VRT) is zero: the difference of two floats is zero exactly
\* when they are equal
DivisorIsZero(raw) == VRT(raw) = Vin

\* the row with its index counted from 1
ThermRow_OneBased(idx, raw) ==
  <<35>> \o FmtInt(idx + 1) \o <<44, 32>> \o FmtFixed2(TemperatureCenti(raw))
    \o <<194, 176, 67, 10>>

\* fprintf(f, "#%d, %.2f°C\n", i, temperature)
ThermRow(idx, raw) ==
  <<35>> \o FmtInt(idx) \o <<44, 32>> \o FmtFixed2(TemperatureCenti(raw))
    \o <<194, 176, 67, 10>>

\* fprintf(f, "%d,%d,%d\n", t, angle, sensor)
CsvRow(t) ==
  LET angle == (t * 15) % 180
      sensor == 100 + ((t * 3) % 50)
  IN  FmtInt(t) \o <<44>> \o FmtInt(angle) \o <<44>> \o FmtInt(sensor) \o <<10>>

\* a row with the two fields the other way round
PotRow_Swapped(idx, value) ==
  FmtInt(value) \o <<44>> \o FmtInt(idx) \o <<10>>

\* fprintf(f, "%d,%d\n", i, raw)
PotRow(idx, value) == FmtInt(idx) \o <<44>> \o FmtInt(value) \o <<10>>

\* a path as the bytes "%s" prints
PathBytes(p) ==
  CASE p = LOG_PATH ->
         <<47, 115, 112, 105, 102, 102, 115, 47, 112, 111, 116, 100, 97, 116,
           97, 46, 99, 115, 118>>
    [] p = TEMP_PATH ->
         <<47, 115, 112, 105, 102, 102, 115, 47, 116, 104, 101, 114, 109, 111,
           100, 97, 116, 97, 46, 99, 115, 118>>

\* printf("[-] open for read failed: %s\n", path)
OpenFailedMsg(p) ==
  <<91, 45, 93, 32, 111, 112, 101, 110, 32, 102, 111, 114, 32, 114, 101, 97,
    100, 32, 102, 97, 105, 108, 101, 100, 58, 32>>
    \o PathBytes(p) \o <<10>>

\* printf("[*] contents of %s:\n", path)
ContentsBanner(p) ==
  <<91, 42, 93, 32, 99, 111, 110, 116, 101, 110, 116, 115, 32, 111, 102, 32>>
    \o PathBytes(p) \o <<58, 10>>

RECURSIVE CsvRows(_, _)
\* the rows t = from .. samples-1 of log_csv_sample's loop, concatenated
CsvRows(from, samples) ==
  IF from >= samples THEN <<>> ELSE CsvRow(from) \o CsvRows(from + 1, samples)

(***************************************************************************)
(* C integer arithmetic                                                    *)
(***************************************************************************)
\* sum += raw on a long: past LONG_MAX the addition wraps around (two's
\* complement), computed without leaving the 32-bit range
AddLong(a, b) ==
  IF b > 0 /\ a > LONG_MAX - b
    THEN (a - LONG_MAX - 1) + (b - LONG_MAX - 1)
    ELSE IF b < 0 /\ a < (0 - LONG_MAX - 1) - b
           THEN (a + LONG_MAX + 1) + (b + LONG_MAX + 1)
           ELSE a + b

\* C division, truncating toward zero (d > 0)
CDiv(n, d) == IF n >= 0 THEN n \div d ELSE 0 - ((0 - n) \div d)

Min(a, b) == IF a < b THEN a ELSE b


RECURSIVE Flatten(_)
\* the concatenation of a sequence of byte strings
Flatten(ls) == IF ls = <<>> THEN <<>> ELSE Head(ls) \o Flatten(Tail(ls))

(***************************************************************************)
(* State                                                                   *)
(***************************************************************************)
VARIABLES
  pc,          \* position of the single thread of control
  adc1_handle, \* TRUE once adc_oneshot_new_unit has set the static handle
  logLevel,    \* global log verbosity (esp_log_level_set)
  files,       \* the store: path -> [exists, data (bytes)]
  stream,      \* the FILE the running call holds: open, mode, buf, pos
  fn,          \* the API function that is running
  path, samples, period, i,   \* its arguments and loop index
  ch, count, ai, sum, avg, retpc,  \* adc_read_avg: arguments, locals, result
  out,         \* bytes the running call wrote to stdout
  result,      \* how the running call ended
  appends,     \* append calls made so far
  writers,     \* path -> the append functions that have opened it
  \* history of the running call
  pre,         \* the file's bytes when the call opened it
  wrote,       \* the lines handed to fprintf, in order
  synced,      \* how many of them a completed fflush or fclose covers
  nConv,       \* conversions issued
  nDelay,      \* inter-sample delays taken
  faults,      \* conversions of the running averaging call that failed
  runFaults,   \* conversions of the running call that failed
  \* the device since boot
  nOpen,       \* files open in the mount
  mainPc,      \* the statement of app_main's sequence that is next
  nSetup,      \* calls of adc_oneshot_setup
  configured   \* the channels adc_oneshot_config_channel has configured

vars ==
  <<pc, adc1_handle, logLevel, files, stream, fn, path, samples, period, i,
    ch, count, ai, sum, avg, retpc, out, result, appends, writers, pre,
    wrote, synced, nConv, nDelay, faults, runFaults, nOpen, mainPc, nSetup,
    configured>>

callVars == <<fn, path, samples, period, i>>
adcVars == <<ch, count, ai, sum, avg, retpc>>
histVars == <<pre, wrote, synced, nConv, nDelay, faults, runFaults>>

Closed == [open |-> FALSE, mode |-> "", buf |-> <<>>, pos |-> 0]

\* no call is running: arguments, locals and history at rest
AtRest ==
  /\ stream = Closed
  /\ fn = "" /\ path = NoPath /\ samples = 0 /\ period = 0 /\ i = 0
  /\ ch = "" /\ count = 0 /\ ai = 0 /\ sum = 0 /\ avg = 0 /\ retpc = ""
  /\ out = <<>> /\ result = ""
  /\ pre = NoFile /\ wrote = <<>> /\ synced = 0
  /\ nConv = 0 /\ nDelay = 0 /\ faults = 0 /\ runFaults = 0
  /\ nOpen = 0 /\ mainPc = 0 /\ nSetup = 0 /\ configured = {}

\* the device after reset, before app_main has run
Init ==
  /\ pc = "off"
  /\ adc1_handle = FALSE
  /\ logLevel = "INFO"
  /\ files = [p \in Store |-> NoFile]
  /\ appends = 0
  /\ writers = [p \in Store |-> {}]
  /\ AtRest

(***************************************************************************)
(* stdio on the store.  fprintf fills the stream's buffer; fflush and      *)
(* fclose write the buffer out in one write.  In the thermistor path the   *)
(* buffer never holds more than the header and one row (35 bytes) between  *)
(* two flushes, so the library has no reason to write it out earlier.      *)
(***************************************************************************)
\* ftell without the seek to the end: the position of a fresh stream
Ftell_NoSeek(fs, s, p) == Len(s.buf)

\* the size ftell reports after fseek(f, 0, SEEK_END)
Ftell(fs, s, p) == Len(fs[p].data) + Len(s.buf)

\* the store after fopen(p, "a"), which creates a missing file
Created(fs, p) == [fs EXCEPT ![p].exists = TRUE]

\* an open for reading that creates a missing file
FopenRead_Creating(fs, p) == [fs EXCEPT ![p].exists = TRUE]

\* the store after fopen(p, "r"): as it was, a missing file still missing
FopenRead(fs, p) == fs

\* a stream fresh from fopen
Opened(m) == [open |-> TRUE, mode |-> m, buf |-> <<>>, pos |-> 0]

\* fprintf: the bytes go to the stream's buffer
Fprintf(s, bytes) == [s EXCEPT !.buf = @ \o bytes]

\* the buffer replacing the file, as a stream opened with "w" would
WriteOut_Truncating(fs, s, p) == [fs EXCEPT ![p].data = s.buf]

\* the buffer never reaching the store
WriteOut_Lost(fs, s, p) == fs

\* the store after the stream's buffer is written out (fflush, fclose)
WriteOut(fs, s, p) == [fs EXCEPT ![p].data = @ \o s.buf]

\* the stream after fflush
Flushed(s) == [s EXCEPT !.buf = <<>>]

\* a return that leaves the file open
Fclose_Leak(n) == n

\* fclose(f): the mount has one open file fewer
Fclose(n) == n - 1

(***************************************************************************)
(* app_main, adc_oneshot_setup                                             *)
(***************************************************************************)
\* a set-up that leaves the potentiometer channel out
SetupChannels_ThermOnly == {ADC_CH_THERMISTOR}

\* the channels adc_oneshot_setup configures (12 bit, 12 dB attenuation)
SetupChannels == {ADC_CH_POT, ADC_CH_THERMISTOR}

\* app_main: fs_mount_or_die(); adc_oneshot_setup(); then the API is used
AppMain ==
  /\ pc = "off"
  /\ pc' = "idle"
  /\ adc1_handle' = TRUE
  /\ stream' = Closed
  /\ fn' = "" /\ path' = NoPath /\ samples' = 0 /\ period' = 0 /\ i' = 0
  /\ ch' = "" /\ count' = 0 /\ ai' = 0 /\ sum' = 0 /\ avg' = 0 /\ retpc' = ""
  /\ out' = <<>> /\ result' = ""
  /\ pre' = NoFile /\ wrote' = <<>> /\ synced' = 0
  /\ nConv' = 0 /\ nDelay' = 0 /\ faults' = 0 /\ runFaults' = 0
  /\ UNCHANGED <<logLevel, files, appends, writers>>
  /\ nOpen' = 0 /\ mainPc' = 0
  /\ nSetup' = nSetup + 1 /\ configured' = SetupChannels

\* adc_oneshot_setup called on its own
AdcOneshotSetup ==
  /\ pc = "idle"
  /\ adc1_handle' = TRUE
  /\ UNCHANGED <<pc, logLevel, files, stream, callVars, adcVars, out, result,
                 appends, writers, histVars>>
  /\ nSetup < MaxSetups
  /\ nSetup' = nSetup + 1 /\ configured' = SetupChannels
  /\ UNCHANGED <<nOpen, mainPc>>

(***************************************************************************)
(* adc_read_avg                                                            *)
(***************************************************************************)
\* adc_oneshot_read's effect on raw (initialised to 0): with a NULL handle
\* the driver rejects the call and leaves raw alone; a failed conversion
\* leaves raw alone or stores a code; a good one stores a code
ConvertOutcomes(c) ==
  IF ~adc1_handle
    THEN {[ok |-> FALSE, raw |-> 0]}
    ELSE {[ok |-> TRUE, raw |-> r] : r \in RawCodes(c)}
           \cup (IF faults < MaxFaults
                   THEN {[ok |-> FALSE, raw |-> r] : r \in RawCodes(c) \cup {0}}
                   ELSE {})

\* one iteration of the averaging loop: read, add, settle delay
AdcConvert ==
  /\ pc = "adc_loop"
  /\ ai < count
  /\ \E o \in ConvertOutcomes(ch) :
       /\ sum' = AddLong(sum, o.raw)
       /\ faults' = IF o.ok THEN faults ELSE faults + 1
       /\ runFaults' = IF o.ok THEN runFaults ELSE runFaults + 1
  /\ ai' = ai + 1
  /\ nConv' = nConv + 1
  /\ UNCHANGED <<pc, adc1_handle, logLevel, files, stream, callVars, ch,
                 count, avg, retpc, out, result, appends, writers, pre, wrote, synced,
                 nDelay>>
  /\ UNCHANGED <<nOpen, mainPc, nSetup, configured>>

\* return (int)(sum / samples)
AdcReturn ==
  /\ pc = "adc_loop"
  /\ ai >= count
  /\ avg' = CDiv(sum, count)
  /\ pc' = retpc
  /\ result' = IF retpc = "ret" THEN "value" ELSE result
  /\ UNCHANGED <<adc1_handle, logLevel, files, stream, callVars, ch, count,
                 ai, sum, retpc, out, appends, writers, histVars>>
  /\ UNCHANGED <<nOpen, mainPc, nSetup, configured>>

\* a direct call adc_read_avg(c, n)
AdcReadAvgCall(c, n) ==
  /\ pc = "idle"
  /\ fn' = "adc_read_avg"
  /\ ch' = c /\ count' = n /\ ai' = 0 /\ sum' = 0 /\ retpc' = "ret"
  /\ faults' = 0
  /\ pc' = "adc_loop"
  /\ UNCHANGED <<adc1_handle, logLevel, files, stream, path, samples, period,
                 i, avg, out, result, appends, writers, pre, wrote, synced, nConv,
                 nDelay, runFaults>>
  /\ UNCHANGED <<nOpen, mainPc, nSetup, configured>>

(***************************************************************************)
(* log_thermistor_samples_csv                                              *)
(***************************************************************************)
\* the return after the failed fopen left out: the run goes on
ThermOpenFailed_FallThrough == "t_header"

\* if (!f) { printf(...); return; }: where a failed fopen leads
ThermOpenFailed == "ret"

\* fopen(path, "a"): creates the file when absent; may fail
LogThermOpen(p, n, per) ==
  /\ pc = "idle"
  /\ appends < MaxAppends
  /\ appends' = appends + 1
  /\ fn' = "log_thermistor_samples_csv"
  /\ path' = p /\ samples' = n /\ period' = per /\ i' = 0
  /\ pre' = files[p]
  /\ \E ok \in {b \in BOOLEAN : b => nOpen < max_files} :
       IF ok
         THEN /\ files' = Created(files, p)
              /\ stream' = Opened("a")
              /\ writers' = [writers EXCEPT ![p] = @ \cup {"log_thermistor_samples_csv"}]
              /\ pc' = "t_header"
              /\ result' = result
         ELSE /\ pc' = ThermOpenFailed
              /\ result' = "open_failed"
              /\ UNCHANGED <<files, stream, writers>>
  /\ UNCHANGED <<adc1_handle, logLevel, adcVars, out, wrote, synced, nConv,
                 nDelay, faults, runFaults>>
  /\ nOpen' = IF stream'.open THEN nOpen + 1 ELSE nOpen
  /\ UNCHANGED <<mainPc, nSetup, configured>>

\* fseek(f, 0, SEEK_END); if (ftell(f) == 0) fprintf(f, header)
LogThermHeader ==
  /\ pc = "t_header"
  /\ IF Ftell(files, stream, path) = 0
       THEN /\ stream' = Fprintf(stream, HeaderLine)
            /\ wrote' = Append(wrote, HeaderLine)
       ELSE UNCHANGED <<stream, wrote>>
  /\ pc' = "t_loop"
  /\ UNCHANGED <<adc1_handle, logLevel, files, callVars, adcVars, out, result,
                 appends, writers, pre, synced, nConv, nDelay, faults, runFaults>>
  /\ UNCHANGED <<nOpen, mainPc, nSetup, configured>>

\* a loop test that lets the index reach total_samples
LoopTest_Inclusive(k, n) == k <= n

\* for (int i = 0; i < samples; i++): the loop test
LoopTest(k, n) == k < n

\* loop test true: raw = adc_read_avg(ADC_CH_THERMISTOR, SAMPLES)
LogThermSample ==
  /\ pc = "t_loop"
  /\ LoopTest(i, samples)
  /\ ch' = ADC_CH_THERMISTOR /\ count' = SAMPLES /\ ai' = 0 /\ sum' = 0
  /\ retpc' = "t_row"
  /\ faults' = 0
  /\ pc' = "adc_loop"
  /\ UNCHANGED <<adc1_handle, logLevel, files, stream, callVars, avg, out,
                 result, appends, writers, pre, wrote, synced, nConv, nDelay, runFaults>>
  /\ UNCHANGED <<nOpen, mainPc, nSetup, configured>>

\* the Beta equation and fprintf(f, "#%d, %.2f°C\n", i, temperature)
LogThermRow ==
  /\ pc = "t_row"
  /\ stream' = Fprintf(stream, ThermRow(i, avg))
  /\ wrote' = Append(wrote, ThermRow(i, avg))
  /\ pc' = "t_flush"
  /\ UNCHANGED <<adc1_handle, logLevel, files, callVars, adcVars, out, result,
                 appends, writers, pre, synced, nConv, nDelay, faults, runFaults>>
  /\ UNCHANGED <<nOpen, mainPc, nSetup, configured>>

\* fflush(f)
LogThermFlush ==
  /\ pc = "t_flush"
  /\ files' = WriteOut(files, stream, path)
  /\ stream' = Flushed(stream)
  /\ synced' = Len(wrote)
  /\ pc' = "t_delay"
  /\ UNCHANGED <<adc1_handle, logLevel, callVars, adcVars, out, result,
                 appends, writers, pre, wrote, nConv, nDelay, faults, runFaults>>
  /\ UNCHANGED <<nOpen, mainPc, nSetup, configured>>

\* vTaskDelay(pdMS_TO_TICKS(period)); i++
LogThermDelay ==
  /\ pc = "t_delay"
  /\ nDelay' = nDelay + 1
  /\ i' = i + 1
  /\ pc' = "t_loop"
  /\ UNCHANGED <<adc1_handle, logLevel, files, stream, fn, path, samples,
                 period, adcVars, out, result, appends, writers, pre, wrote, synced,
                 nConv, faults, runFaults>>
  /\ UNCHANGED <<nOpen, mainPc, nSetup, configured>>

\* loop test false: fclose(f)
LogThermClose ==
  /\ pc = "t_loop"
  /\ ~LoopTest(i, samples)
  /\ files' = WriteOut(files, stream, path)
  /\ stream' = Closed
  /\ synced' = Len(wrote)
  /\ result' = "done"
  /\ pc' = "ret"
  /\ UNCHANGED <<adc1_handle, logLevel, callVars, adcVars, out, appends, writers, pre,
                 wrote, nConv, nDelay, faults, runFaults>>
  /\ nOpen' = Fclose(nOpen)
  /\ UNCHANGED <<mainPc, nSetup, configured>>


(***************************************************************************)
(* log_csv_sample                                                          *)
(***************************************************************************)
\* if (!f) { printf(...); return; }: where a failed fopen leads
CsvOpenFailed == "ret"

\* fopen(path, "a"): creates the file when absent; may fail
LogCsvOpen(p, n) ==
  /\ pc = "idle"
  /\ appends < MaxAppends
  /\ appends' = appends + 1
  /\ fn' = "log_csv_sample"
  /\ path' = p /\ samples' = n /\ period' = 0 /\ i' = 0
  /\ pre' = files[p]
  /\ \E ok \in {b \in BOOLEAN : b => nOpen < max_files} :
       IF ok
         THEN /\ files' = Created(files, p)
              /\ stream' = Opened("a")
              /\ writers' = [writers EXCEPT ![p] = @ \cup {"log_csv_sample"}]
              /\ pc' = "c_rows"
              /\ result' = result
         ELSE /\ pc' = CsvOpenFailed
              /\ result' = "open_failed"
              /\ UNCHANGED <<files, stream, writers>>
  /\ UNCHANGED <<adc1_handle, logLevel, adcVars, out, wrote, synced, nConv,
                 nDelay, faults, runFaults>>
  /\ nOpen' = IF stream'.open THEN nOpen + 1 ELSE nOpen
  /\ UNCHANGED <<mainPc, nSetup, configured>>

\* for (t = 0; t < samples; t++) fprintf(f, "%d,%d,%d\n", t, angle, sensor)
LogCsvRows ==
  /\ pc = "c_rows"
  /\ stream' = Fprintf(stream, CsvRows(0, samples))
  /\ wrote' = wrote \o [t \in 1..samples |-> CsvRow(t - 1)]
  /\ i' = IF samples > 0 THEN samples ELSE 0
  /\ pc' = "c_close"
  /\ UNCHANGED <<adc1_handle, logLevel, files, fn, path, samples, period,
                 adcVars, out, result, appends, writers, pre, synced, nConv, nDelay,
                 faults, runFaults>>
  /\ UNCHANGED <<nOpen, mainPc, nSetup, configured>>

\* fclose(f)
LogCsvClose ==
  /\ pc = "c_close"
  /\ files' = WriteOut(files, stream, path)
  /\ stream' = Closed
  /\ synced' = Len(wrote)
  /\ result' = "done"
  /\ pc' = "ret"
  /\ UNCHANGED <<adc1_handle, logLevel, callVars, adcVars, out, appends, writers, pre,
                 wrote, nConv, nDelay, faults, runFaults>>
  /\ nOpen' = Fclose(nOpen)
  /\ UNCHANGED <<mainPc, nSetup, configured>>

(***************************************************************************)
(* print_csv_file_only                                                     *)
(***************************************************************************)
\* fread(buf, 1, sizeof(buf), f): how many bytes it delivers at position pos
Fread(data, pos) == Min(ChunkSize, Len(data) - pos)

\* the loop running only while fread fills the whole buffer
ChunkContinues_FullOnly(n) == n >= ChunkSize

\* while ((n = fread(...)) > 0): whether the loop body runs for n
ChunkContinues(n) == n > 0

\* the level the device boots with
ESP_LOG_INFO == "INFO"

\* the level print_csv_file_only sets for every tag
ESP_LOG_WARN == "WARN"

\* esp_log_level_set("*", ESP_LOG_WARN); fopen(path, "r"); on failure the
\* fixed error CSV goes to stdout
PrintCsvOpen(p) ==
  /\ pc = "idle"
  /\ logLevel' = ESP_LOG_WARN
  /\ fn' = "print_csv_file_only"
  /\ path' = p
  /\ pre' = files[p]
  /\ \E ok \in {b \in BOOLEAN : b => (files[p].exists /\ nOpen < max_files)} :
       IF ok
         THEN /\ stream' = Opened("r")
              /\ pc' = "p_read"
              /\ UNCHANGED <<out, result>>
         ELSE /\ out' = out \o ErrorCsv
              /\ result' = "missing"
              /\ pc' = "ret"
              /\ UNCHANGED stream
  /\ files' = FopenRead(files, p)
  /\ UNCHANGED <<adc1_handle, samples, period, i, adcVars, appends, writers,
                 wrote, synced, nConv, nDelay, faults, runFaults>>
  /\ nOpen' = IF stream'.open THEN nOpen + 1 ELSE nOpen
  /\ UNCHANGED <<mainPc, nSetup, configured>>

\* loop body: n = fread(...) > 0; fwrite(buf, 1, n, stdout)
PrintCsvChunk ==
  /\ pc = "p_read"
  /\ LET n == Fread(files[path].data, stream.pos)
     IN  /\ ChunkContinues(n)
         /\ out' = out \o SubSeq(files[path].data, stream.pos + 1, stream.pos + n)
         /\ stream' = [stream EXCEPT !.pos = @ + n]
  /\ UNCHANGED <<pc, adc1_handle, logLevel, files, callVars, adcVars, result,
                 appends, writers, histVars>>
  /\ UNCHANGED <<nOpen, mainPc, nSetup, configured>>

\* fread returns 0: fclose(f)
PrintCsvClose ==
  /\ pc = "p_read"
  /\ ~ChunkContinues(Fread(files[path].data, stream.pos))
  /\ stream' = Closed
  /\ result' = "streamed"
  /\ pc' = "ret"
  /\ UNCHANGED <<adc1_handle, logLevel, files, callVars, adcVars, out,
                 appends, writers, histVars>>
  /\ nOpen' = Fclose(nOpen)
  /\ UNCHANGED <<mainPc, nSetup, configured>>

(***************************************************************************)
(* fs_print_file                                                           *)
(***************************************************************************)
\* fgets(buf, sizeof buf, f): how many bytes it delivers at position pos,
\* at most LineSize - 1 and none past the first line feed
Fgets(data, pos) ==
  LET room == Min(LineSize - 1, Len(data) - pos)
  IN  IF \E k \in 1..room : data[pos + k] = 10
        THEN CHOOSE k \in 1..room :
               data[pos + k] = 10 /\ \A j \in 1..(k - 1) : data[pos + j] # 10
        ELSE room

\* fopen(path, "r"); on failure a message goes to stdout, on success the
\* banner naming the file
FsPrintOpen(p) ==
  /\ pc = "idle"
  /\ fn' = "fs_print_file"
  /\ path' = p
  /\ pre' = files[p]
  /\ files' = FopenRead(files, p)
  /\ \E ok \in {b \in BOOLEAN : b => (files[p].exists /\ nOpen < max_files)} :
       IF ok
         THEN /\ stream' = Opened("r")
              /\ out' = out \o ContentsBanner(p)
              /\ pc' = "f_read"
              /\ UNCHANGED result
         ELSE /\ out' = out \o OpenFailedMsg(p)
              /\ result' = "missing"
              /\ pc' = "ret"
              /\ UNCHANGED stream
  /\ nOpen' = IF stream'.open THEN nOpen + 1 ELSE nOpen
  /\ UNCHANGED <<adc1_handle, logLevel, samples, period, i, adcVars, appends,
                 writers, wrote, synced, nConv, nDelay, faults, runFaults,
                 mainPc, nSetup, configured>>

\* loop body: fgets delivers a line (or a part of one); printf("%s", buf)
FsPrintLine ==
  /\ pc = "f_read"
  /\ LET n == Fgets(files[path].data, stream.pos)
     IN  /\ n > 0
         /\ out' = out \o SubSeq(files[path].data, stream.pos + 1, stream.pos + n)
         /\ stream' = [stream EXCEPT !.pos = @ + n]
  /\ UNCHANGED <<pc, adc1_handle, logLevel, files, callVars, adcVars, result,
                 appends, writers, histVars, nOpen, mainPc, nSetup, configured>>

\* fgets returns NULL at the end of the file: fclose(f); printf("\n")
FsPrintClose ==
  /\ pc = "f_read"
  /\ Fgets(files[path].data, stream.pos) = 0
  /\ stream' = Closed
  /\ nOpen' = Fclose(nOpen)
  /\ out' = out \o <<10>>
  /\ result' = "printed"
  /\ pc' = "ret"
  /\ UNCHANGED <<adc1_handle, logLevel, files, callVars, adcVars, appends,
                 writers, histVars, mainPc, nSetup, configured>>

(***************************************************************************)
(* log_pot_samples_csv.  Declared in fs_helpers.h and called by app_main;  *)
(* its body is not part of the sources.  Modelled after the acquisition    *)
(* loop of the specification in potentiometer mode: append mode, no header,*)
(* one averaged read of the potentiometer channel and one row              *)
(* "index,value" per iteration, the delay after each row, one flush at     *)
(* close.                                                                  *)
(***************************************************************************)
\* the open for append: creates the file when absent; may fail, and the
\* call then returns
LogPotOpen(p, n, per) ==
  /\ pc = "idle"
  /\ appends < MaxAppends
  /\ appends' = appends + 1
  /\ fn' = "log_pot_samples_csv"
  /\ path' = p /\ samples' = n /\ period' = per /\ i' = 0
  /\ pre' = files[p]
  /\ \E ok \in {b \in BOOLEAN : b => nOpen < max_files} :
       IF ok
         THEN /\ files' = Created(files, p)
              /\ stream' = Opened("a")
              /\ writers' = [writers EXCEPT ![p] = @ \cup {"log_pot_samples_csv"}]
              /\ pc' = "q_loop"
              /\ result' = result
         ELSE /\ pc' = "ret"
              /\ result' = "open_failed"
              /\ UNCHANGED <<files, stream, writers>>
  /\ nOpen' = IF stream'.open THEN nOpen + 1 ELSE nOpen
  /\ UNCHANGED <<adc1_handle, logLevel, adcVars, out, wrote, synced, nConv,
                 nDelay, faults, runFaults, mainPc, nSetup, configured>>

\* Sampling: one averaged read of the potentiometer channel
LogPotSample ==
  /\ pc = "q_loop"
  /\ i < samples
  /\ ch' = ADC_CH_POT /\ count' = SAMPLES /\ ai' = 0 /\ sum' = 0
  /\ retpc' = "q_row"
  /\ faults' = 0
  /\ pc' = "adc_loop"
  /\ UNCHANGED <<adc1_handle, logLevel, files, stream, callVars, avg, out,
                 result, appends, writers, pre, wrote, synced, nConv, nDelay,
                 runFaults, nOpen, mainPc, nSetup, configured>>

\* Persisting: the row {i, value}, the value being the averaged reading
LogPotRow ==
  /\ pc = "q_row"
  /\ stream' = Fprintf(stream, PotRow(i, avg))
  /\ wrote' = Append(wrote, PotRow(i, avg))
  /\ pc' = "q_delay"
  /\ UNCHANGED <<adc1_handle, logLevel, files, callVars, adcVars, out, result,
                 appends, writers, pre, synced, nConv, nDelay, faults, runFaults,
                 nOpen, mainPc, nSetup, configured>>

\* the suspension for period_ms, then the next iteration
LogPotDelay ==
  /\ pc = "q_delay"
  /\ nDelay' = nDelay + 1
  /\ i' = i + 1
  /\ pc' = "q_loop"
  /\ UNCHANGED <<adc1_handle, logLevel, files, stream, fn, path, samples,
                 period, adcVars, out, result, appends, writers, pre, wrote,
                 synced, nConv, faults, runFaults, nOpen, mainPc, nSetup,
                 configured>>

\* Done: the close, which writes the buffered rows out
LogPotClose ==
  /\ pc = "q_loop"
  /\ i >= samples
  /\ files' = WriteOut(files, stream, path)
  /\ stream' = Closed
  /\ nOpen' = Fclose(nOpen)
  /\ synced' = Len(wrote)
  /\ result' = "done"
  /\ pc' = "ret"
  /\ UNCHANGED <<adc1_handle, logLevel, callVars, adcVars, out, appends,
                 writers, pre, wrote, nConv, nDelay, faults, runFaults, mainPc,
                 nSetup, configured>>

(***************************************************************************)
(* Return to the caller, power loss                                        *)
(***************************************************************************)
\* the running call returns; its locals and history are dropped, and
\* app_main goes on at its statement m
Return(m) ==
  /\ pc = "ret"
  /\ pc' = "idle"
  /\ stream' = Closed
  /\ fn' = "" /\ path' = NoPath /\ samples' = 0 /\ period' = 0 /\ i' = 0
  /\ ch' = "" /\ count' = 0 /\ ai' = 0 /\ sum' = 0 /\ avg' = 0 /\ retpc' = ""
  /\ out' = <<>> /\ result' = ""
  /\ pre' = NoFile /\ wrote' = <<>> /\ synced' = 0
  /\ nConv' = 0 /\ nDelay' = 0 /\ faults' = 0 /\ runFaults' = 0
  /\ UNCHANGED <<adc1_handle, logLevel, files, appends, writers>>
  /\ mainPc' = m
  /\ UNCHANGED <<nOpen, nSetup, configured>>

\* power is lost: RAM (handle, stream buffer, locals) is gone, the store
\* keeps what was written out; the history of the interrupted call is kept
\* until app_main runs again
PowerLoss ==
  /\ pc \notin {"off", "idle"}
  /\ pc' = "off"
  /\ adc1_handle' = FALSE
  /\ logLevel' = "INFO"
  /\ stream' = Closed
  /\ samples' = 0 /\ period' = 0 /\ i' = 0
  /\ ch' = "" /\ count' = 0 /\ ai' = 0 /\ sum' = 0 /\ avg' = 0 /\ retpc' = ""
  /\ out' = <<>> /\ result' = "interrupted"
  /\ nConv' = 0 /\ nDelay' = 0 /\ faults' = 0 /\ runFaults' = 0
  /\ UNCHANGED <<files, fn, path, appends, writers, pre, wrote, synced>>
  /\ nOpen' = 0 /\ mainPc' = 0 /\ nSetup' = 0 /\ configured' = {}

(***************************************************************************)
(* Specifications                                                          *)
(***************************************************************************)
\* the device: app_main sets up, then the logging and export API is used
Next ==
  \/ AppMain
  \/ \E p \in Paths, n \in ThermSamples, per \in Periods : LogThermOpen(p, n, per)
  \/ LogThermHeader
  \/ LogThermSample
  \/ AdcConvert
  \/ AdcReturn
  \/ LogThermRow
  \/ LogThermFlush
  \/ LogThermDelay
  \/ LogThermClose
  \/ \E p \in Paths, n \in CsvSamples : LogCsvOpen(p, n)
  \/ LogCsvRows
  \/ LogCsvClose
  \/ \E p \in Paths : PrintCsvOpen(p)
  \/ PrintCsvChunk
  \/ PrintCsvClose
  \/ \E p \in Paths : FsPrintOpen(p)
  \/ FsPrintLine
  \/ FsPrintClose
  \/ Return(mainPc)
  \/ PowerLoss

Spec == Init /\ [][Next]_vars

\* a step of a thermistor run after its open
ThermRunStep ==
  \/ LogThermHeader
  \/ LogThermSample
  \/ AdcConvert
  \/ AdcReturn
  \/ LogThermRow
  \/ LogThermFlush
  \/ LogThermDelay
  \/ LogThermClose

\* the device left powered: no power loss
NextLive ==
  \/ AppMain
  \/ \E p \in Paths, n \in ThermSamples, per \in Periods : LogThermOpen(p, n, per)
  \/ ThermRunStep
  \/ \E p \in Paths, n \in CsvSamples : LogCsvOpen(p, n)
  \/ LogCsvRows
  \/ LogCsvClose
  \/ \E p \in Paths : PrintCsvOpen(p)
  \/ PrintCsvChunk
  \/ PrintCsvClose
  \/ \E p \in Paths : FsPrintOpen(p)
  \/ FsPrintLine
  \/ FsPrintClose
  \/ Return(mainPc)

\* every conversion (adc_oneshot_read), delay (vTaskDelay) and stdio call
\* of a thermistor run returns, so the run's thread takes its next step
SpecLive == Init /\ [][NextLive]_vars /\ WF_vars(ThermRunStep)

\* adc_read_avg and adc_oneshot_setup called directly, in any order
InitAdc ==
  /\ pc = "idle"
  /\ adc1_handle = FALSE
  /\ logLevel = "INFO"
  /\ files = [p \in Store |-> NoFile]
  /\ appends = 0
  /\ writers = [p \in Store |-> {}]
  /\ AtRest

NextAdc ==
  \/ AdcOneshotSetup
  \/ \E c \in Channels, n \in 1..MaxCount : AdcReadAvgCall(c, n)
  \/ AdcConvert
  \/ AdcReturn
  \/ Return(mainPc)

SpecAdc == InitAdc /\ [][NextAdc]_vars

\* the smallest count whose full-scale sum no longer fits a long
OverflowCount == (LONG_MAX \div ADC_MAX) + 1

\* one long averaging call on a set-up unit
InitLong ==
  /\ pc = "idle"
  /\ adc1_handle = TRUE
  /\ logLevel = "INFO"
  /\ files = [p \in Store |-> NoFile]
  /\ appends = 0
  /\ writers = [p \in Store |-> {}]
  /\ AtRest

NextLong ==
  \/ AdcReadAvgCall(ADC_CH_THERMISTOR, OverflowCount)
  \/ AdcConvert
  \/ AdcReturn
  \/ Return(mainPc)

SpecLong == InitLong /\ [][NextLong]_vars

\* esp_vfs_spiffs_unregister(NULL); app_main returns
Unregister ==
  /\ pc = "idle"
  /\ mainPc = 3
  /\ pc' = "halt"
  /\ UNCHANGED <<adc1_handle, logLevel, files, stream, callVars, adcVars, out,
                 result, appends, writers, histVars, nOpen, mainPc, nSetup,
                 configured>>

\* the device before app_main runs; the log file is missing or holds a row
\* of an earlier run
InitMain ==
  /\ pc = "off"
  /\ adc1_handle = FALSE
  /\ logLevel = "INFO"
  /\ \E f \in {NoFile, [exists |-> TRUE, data |-> PotRow(0, ADC_MAX)]} :
       files = [p \in Store |-> IF p = LOG_PATH THEN f ELSE NoFile]
  /\ appends = 0
  /\ writers = [p \in Store |-> {}]
  /\ AtRest

\* app_main as it stands (Demo 3.3): mount and set-up, the potentiometer
\* run, the export, the verification print, the unmount.  The run's 20
\* samples are replaced by the counts of PotSamples.
NextMain ==
  \/ AppMain
  \/ \E n \in PotSamples : mainPc = 0 /\ LogPotOpen(LOG_PATH, n, SAMPLE_PERIOD_MS)
  \/ LogPotSample
  \/ AdcConvert
  \/ AdcReturn
  \/ LogPotRow
  \/ LogPotDelay
  \/ LogPotClose
  \/ mainPc = 1 /\ PrintCsvOpen(LOG_PATH)
  \/ PrintCsvChunk
  \/ PrintCsvClose
  \/ mainPc = 2 /\ FsPrintOpen(LOG_PATH)
  \/ FsPrintLine
  \/ FsPrintClose
  \/ Return(mainPc + 1)
  \/ Unregister

SpecMain == InitMain /\ [][NextMain]_vars


(***************************************************************************)
(* Reading a file back as lines, for the properties                        *)
(***************************************************************************)
LF == 10

RECURSIVE SplitLines(_, _)
\* the lines of b from byte s on, each with its terminator (the last one may
\* lack it)
SplitLines(b, s) ==
  IF s > Len(b)
    THEN <<>>
    ELSE IF \E k \in s..Len(b) : b[k] = LF
           THEN LET e == CHOOSE k \in s..Len(b) :
                           b[k] = LF /\ \A j \in s..(k - 1) : b[j] # LF
                IN  <<SubSeq(b, s, e)>> \o SplitLines(b, e + 1)
           ELSE <<SubSeq(b, s, Len(b))>>

Lines(b) == SplitLines(b, 1)

\* the text "index,temperature_C" and its line terminator, spelled out
HeaderText ==
  <<105, 110, 100, 101, 120, 44, 116, 101, 109, 112, 101, 114, 97, 116,
    117, 114, 101, 95, 67>> \o <<LF>>

HeaderCount(b) ==
  LET ls == Lines(b) IN Cardinality({k \in 1..Len(ls) : ls[k] = HeaderText})

DataRows(b) ==
  LET ls == Lines(b) IN SelectSeq(ls, LAMBDA l : l # HeaderText)

IsPrefix(a, b) == Len(a) <= Len(b) /\ SubSeq(b, 1, Len(a)) = a

\* what b holds after its first n bytes
After(b, n) == SubSeq(b, n + 1, Len(b))

IsDigit(c) == c \in 48..57

RECURSIVE ParseNat(_, _, _)
\* the decimal number that starts at byte k of l
ParseNat(l, k, acc) ==
  IF k <= Len(l) /\ IsDigit(l[k])
    THEN ParseNat(l, k + 1, (acc * 10) + (l[k] - 48))
    ELSE acc

\* the index field of a data row: "#<index>, ..." or "<index>,..."; -1 when
\* the row does not start with one
RowIndex(l) ==
  LET k == IF l # <<>> /\ l[1] = 35 THEN 2 ELSE 1
  IN  IF k <= Len(l) /\ IsDigit(l[k]) THEN ParseNat(l, k, 0) ELSE -1

WholeLine(l) == l # <<>> /\ l[Len(l)] = LF

Therm == "log_thermistor_samples_csv"
Csv == "log_csv_sample"
Export == "print_csv_file_only"

(***************************************************************************)
(* C1  Idempotent header: on a path only log_thermistor_samples_csv has    *)
(* appended to, starting absent or empty, a non-empty file begins with the *)
(* header line and holds it exactly once; a call that completed leaves the *)
(* file non-empty; and a call that opened a non-empty file adds no header  *)
(* (neither to the store nor to its buffer).                               *)
(***************************************************************************)
C1_HeaderOnce ==
  /\ \A p \in Paths :
       (writers[p] \subseteq {Therm} /\ files[p].data # <<>>)
         => /\ HeaderCount(files[p].data) = 1
            /\ Lines(files[p].data)[1] = HeaderText
  /\ (fn = Therm /\ pc = "ret" /\ result = "done") => files[path].data # <<>>
  /\ (fn = Therm /\ path # NoPath /\ pre.data # <<>>)
       => HeaderCount(files[path].data \o stream.buf) = HeaderCount(pre.data)

\* a second thermistor call has appended rows to a file that already held
\* the header
C1_Witness ==
  /\ pc = "ret" /\ fn = Therm /\ result = "done"
  /\ writers[path] = {Therm}
  /\ pre.data # <<>>
  /\ Len(files[path].data) > Len(pre.data)
  /\ HeaderCount(files[path].data) = 1

(***************************************************************************)
(* C2  Append-only: when an append call (either function, n samples) has   *)
(* completed, the file is its contents at open time followed by what the   *)
(* call added; the added part is whole lines, holds exactly n data rows    *)
(* whose index fields are 0, 1, ..., n-1 in this order, and holds a header *)
(* only as its first line and only when the thermistor call found the file *)
(* empty.                                                                  *)
(***************************************************************************)
C2_AppendOnly ==
  (pc = "ret" /\ result = "done" /\ fn \in {Therm, Csv})
    => LET d == files[path].data
           added == Lines(After(d, Len(pre.data)))
           rows == DataRows(After(d, Len(pre.data)))
       IN  /\ IsPrefix(pre.data, d)
           /\ \A k \in 1..Len(added) : WholeLine(added[k])
           /\ Len(rows) = samples
           /\ \A k \in 1..Len(rows) : RowIndex(rows[k]) = k - 1
           /\ \A k \in 1..Len(added) :
                added[k] = HeaderText => (k = 1 /\ fn = Therm /\ pre.data = <<>>)
           /\ Len(DataRows(d)) = Len(DataRows(pre.data)) + samples

\* two completed calls of one row each: the file holds two data rows
C2_Witness ==
  /\ pc = "ret" /\ result = "done" /\ fn \in {Therm, Csv}
  /\ samples = 1
  /\ Len(DataRows(pre.data)) = 1
  /\ Len(DataRows(files[path].data)) = 2

(***************************************************************************)
(* C3  Durability in the thermistor path: at every point of a run, and     *)
(* after a power loss during it, the store holds the file's contents at    *)
(* open time followed by the first k lines this run handed to fprintf, for *)
(* a k that covers every line a completed fflush or fclose covers; each of *)
(* these lines is whole; and row i is on the store during the delay that   *)
(* follows it and while row i+1 is being sampled.                          *)
(***************************************************************************)
RowsOnStore == Len(DataRows(After(files[path].data, Len(pre.data))))

C3_DurableRows ==
  (fn = Therm /\ result # "open_failed")
    => /\ \E k \in synced..Len(wrote) :
            files[path].data = pre.data \o Flatten(SubSeq(wrote, 1, k))
       /\ \A k \in 1..Len(wrote) :
            WholeLine(wrote[k]) /\ Len(Lines(wrote[k])) = 1
       /\ pc = "t_delay" => RowsOnStore = i + 1
       /\ pc \in {"t_loop", "adc_loop", "t_row"} => RowsOnStore = i

\* power was lost after row 1 went to the buffer and before its flush: the
\* store holds row 0 and nothing of row 1
C3_Witness ==
  /\ pc = "off" /\ fn = Therm /\ result = "interrupted"
  /\ synced >= 1
  /\ Len(wrote) > synced
  /\ RowsOnStore = 1


(***************************************************************************)
(* C4  A thermistor run stops at the first failure: once a conversion of   *)
(* the run has failed, the run issues no further conversion and hands no   *)
(* further line to fprintf.                                                *)
(***************************************************************************)
C4_RunStopsAtFailure ==
  [][(fn = Therm /\ runFaults > 0 /\ fn' = Therm /\ pc' # "off")
       => (nConv' = nConv /\ wrote' = wrote)]_vars

(***************************************************************************)
(* C5  adc_read_avg stops at a failed conversion: once the set-up unit has *)
(* reported an error in an averaging call, the call issues no further      *)
(* conversion and ends with the outcome HardwareReadError.                 *)
(***************************************************************************)
C5_AveragingStopsAtFault ==
  [][(pc = "adc_loop" /\ adc1_handle /\ faults > 0)
       => (nConv' = nConv /\ (pc' # "adc_loop" => result' = "HardwareReadError"))]_vars

(***************************************************************************)
(* C6  Soft failure of fopen for append: the call has returned to its      *)
(* caller (which goes on), took no ADC sample, wrote nothing, took no      *)
(* delay, holds no open stream, and the file is as it was, a missing file  *)
(* still missing.                                                          *)
(***************************************************************************)
C6_SoftOpenFailure ==
  result = "open_failed"
    => /\ pc = "ret"
       /\ ENABLED Return(mainPc)
       /\ fn \in {Therm, Csv}
       /\ files[path] = pre
       /\ stream = Closed
       /\ wrote = <<>>
       /\ nConv = 0
       /\ nDelay = 0

\* a thermistor call for two rows could not open a file that holds data
C6_Witness ==
  /\ result = "open_failed" /\ fn = Therm /\ samples = 2
  /\ pre.data # <<>>

(***************************************************************************)
(* C7  adc_read_avg with the ADC handle still NULL ends with the outcome   *)
(* NotInitialized, not with a numeric reading.                             *)
(***************************************************************************)
C7_NotInitialized ==
  (fn = "adc_read_avg" /\ pc = "ret" /\ ~adc1_handle)
    => result = "NotInitialized"

(***************************************************************************)
(* C8  adc_read_avg(ch, count), count >= 1, every conversion delivering a  *)
(* code in 0..ADC_MAX: exactly count conversions are issued and the        *)
(* returned mean lies in 0..ADC_MAX.                                       *)
(***************************************************************************)
C8_MeanInRange ==
  (fn = "adc_read_avg" /\ pc = "ret" /\ adc1_handle /\ faults = 0 /\ count >= 1)
    => (nConv = count /\ avg \in 0..ADC_MAX)

(***************************************************************************)
(* C9  Export round trip: while print_csv_file_only streams, stdout holds  *)
(* the bytes of the file before the read position; when it has closed the  *)
(* file, stdout holds the file's bytes exactly, and the file is unchanged. *)
(***************************************************************************)
C9_ExportRoundTrip ==
  /\ (fn = Export /\ pc = "p_read")
       => out = SubSeq(files[path].data, 1, stream.pos)
  /\ (fn = Export /\ pc = "ret" /\ result = "streamed")
       => (out = files[path].data /\ files[path] = pre)

\* a file longer than one chunk and not a multiple of it was streamed
C9_Witness ==
  /\ fn = Export /\ pc = "ret" /\ result = "streamed"
  /\ Len(out) > ChunkSize
  /\ Len(out) % ChunkSize # 0

(***************************************************************************)
(* C10  Missing-file export: a file that does not exist cannot be          *)
(* streamed, and whenever the open for reading fails the call returns      *)
(* having written to stdout exactly the lines "error,message" and          *)
(* ",Could not open file", each ended by CR LF, with the store unchanged.  *)
(***************************************************************************)
CR == 13

ErrorCsvText ==
  <<101, 114, 114, 111, 114, 44, 109, 101, 115, 115, 97, 103, 101>>
    \o <<CR, LF>>
    \o <<44, 67, 111, 117, 108, 100, 32, 110, 111, 116, 32, 111, 112, 101,
         110, 32, 102, 105, 108, 101>>
    \o <<CR, LF>>

C10_MissingFileCsv ==
  (fn = Export /\ pc # "off")
    => /\ ~pre.exists => result = "missing"
       /\ result = "missing"
            => (pc = "ret" /\ out = ErrorCsvText /\ stream = Closed
                  /\ files[path] = pre)

\* the export of a missing file, after an append call was attempted
C10_Witness ==
  /\ fn = Export /\ result = "missing" /\ ~pre.exists
  /\ appends >= 1

(***************************************************************************)
(* C11  No file handle is held across iterations of a thermistor run:      *)
(* while the run samples the ADC or waits in the inter-sample delay, its   *)
(* log file is not open (the stream is closed and the mount has no open    *)
(* file), so an export of the same file could open it then.                *)
(***************************************************************************)
C11_NoHandleBetweenWrites ==
  (fn = Therm /\ pc \in {"adc_loop", "t_delay"})
    => (~stream.open /\ nOpen = 0)

(***************************************************************************)
(* C12  LogFile invariant: whatever append calls (log_csv_sample,          *)
(* log_thermistor_samples_csv) have run on a path, a non-empty file starts *)
(* with a header line, not with a data row, and with the thermistor header *)
(* when thermistor rows are written to it.                                 *)
(***************************************************************************)
C12_FirstLineIsHeader ==
  \A p \in Paths :
    files[p].data # <<>>
      => LET first == Lines(files[p].data)[1]
         IN  /\ RowIndex(first) = -1
             /\ (Therm \in writers[p]) => first = HeaderText

(***************************************************************************)
(* C13  Potentiometer run: when row i has been handed to fprintf it is the *)
(* i-th line of the run and reads "i,value" with value the averaged        *)
(* reading of the potentiometer channel taken in this iteration (SAMPLES   *)
(* conversions); when log_pot_samples_csv(path, n, period) has completed,  *)
(* the file is its contents at open time followed by exactly these n rows, *)
(* indices 0..n-1 in order, and no header.                                 *)
(***************************************************************************)
Pot == "log_pot_samples_csv"
Comma == 44

\* the decimal number after the first comma of l
RowValue(l) ==
  LET k == CHOOSE k \in 1..Len(l) :
             l[k] = Comma /\ \A j \in 1..(k - 1) : l[j] # Comma
  IN  ParseNat(l, k + 1, 0)

\* l is two fields of digits, a comma between them, a line feed at the end
TwoIntegers(l) ==
  /\ WholeLine(l)
  /\ Cardinality({k \in 1..Len(l) : l[k] = Comma}) = 1
  /\ \A k \in 1..(Len(l) - 1) : IsDigit(l[k]) \/ l[k] = Comma
  /\ IsDigit(l[1]) /\ IsDigit(l[Len(l) - 1])

C13_PotRows ==
  /\ (fn = Pot /\ pc = "q_delay")
       => /\ Len(wrote) = i + 1
          /\ TwoIntegers(wrote[i + 1])
          /\ RowIndex(wrote[i + 1]) = i
          /\ RowValue(wrote[i + 1]) = avg
          /\ ch = ADC_CH_POT
          /\ nConv = (i + 1) * SAMPLES
  /\ (fn = Pot /\ pc = "ret" /\ result = "done")
       => /\ Len(wrote) = samples
          /\ \A k \in 1..Len(wrote) : RowIndex(wrote[k]) = k - 1
          /\ files[path].data = pre.data \o Flatten(wrote)
          /\ Lines(After(files[path].data, Len(pre.data))) = wrote
          /\ HeaderCount(files[path].data) = 0

\* the run of three samples with averaged readings 0, 0, 4095 on a missing
\* file has left the lines "0,0", "1,0", "2,4095"
C13_Witness ==
  /\ fn = Pot /\ pc = "ret" /\ result = "done" /\ samples = 3
  /\ ~pre.exists
  /\ files[LOG_PATH].data =
       <<48, 44, 48, 10, 49, 44, 48, 10, 50, 44, 52, 48, 57, 53, 10>>

(***************************************************************************)
(* C14  Configure before read: in app_main's execution, whenever a         *)
(* conversion is being or has been issued on a channel, adc_oneshot_setup  *)
(* has created the ADC unit and configured that channel; once app_main has *)
(* started, the set-up has run exactly once and both channels are          *)
(* configured.                                                             *)
(***************************************************************************)
C14_ConfigureBeforeRead ==
  /\ (pc = "adc_loop" \/ nConv > 0)
       => (adc1_handle /\ ch \in configured /\ nSetup = 1)
  /\ pc # "off"
       => (nSetup = 1 /\ adc1_handle
             /\ configured = {ADC_CH_POT, ADC_CH_THERMISTOR})
  /\ pc = "off" => (nSetup = 0 /\ nConv = 0)

\* a conversion of the second row of app_main's potentiometer run has been
\* issued
C14_Witness ==
  /\ pc = "adc_loop" /\ fn = Pot /\ ch = ADC_CH_POT
  /\ i = 1 /\ nConv > SAMPLES
  /\ nSetup = 1 /\ mainPc = 0

(***************************************************************************)
(* C15  Step order of a thermistor run.  In iteration i: the averaged read *)
(* of the thermistor channel (SAMPLES conversions) comes first; row i is   *)
(* handed to fprintf only after that read is complete; the row is flushed  *)
(* to the store before the delay; the delay is the last step, and i        *)
(* delays have been taken when iteration i starts.  The data rows of the   *)
(* run carry the indices 0, 1, ... in order, from 0 in every run, and      *)
(* never more than total_samples of them.                                  *)
(***************************************************************************)
RunRows == SelectSeq(wrote, LAMBDA l : l # HeaderText)

C15_StepOrder ==
  (fn = Therm /\ pc \in {"t_loop", "adc_loop", "t_row", "t_flush", "t_delay"})
    => /\ \A k \in 1..Len(RunRows) : RowIndex(RunRows[k]) = k - 1
       /\ Len(RunRows) <= samples
       /\ nDelay = i
       /\ pc = "t_loop"
            => (i <= samples /\ Len(RunRows) = i /\ nConv = i * SAMPLES)
       /\ pc = "adc_loop"
            => (i < samples /\ Len(RunRows) = i /\ nConv = (i * SAMPLES) + ai
                  /\ ch = ADC_CH_THERMISTOR /\ count = SAMPLES)
       /\ pc = "t_row"
            => (Len(RunRows) = i /\ nConv = (i + 1) * SAMPLES /\ RowsOnStore = i)
       /\ pc = "t_flush"
            => (Len(RunRows) = i + 1 /\ nConv = (i + 1) * SAMPLES
                  /\ RowsOnStore = i)
       /\ pc = "t_delay"
            => (Len(RunRows) = i + 1 /\ nConv = (i + 1) * SAMPLES
                  /\ RowsOnStore = i + 1)

\* the second run on a file is in the delay after its row 1: its rows are
\* numbered 0 and 1 although the file held rows before
C15_Witness ==
  /\ fn = Therm /\ pc = "t_delay" /\ i = 1 /\ samples = 2
  /\ Len(DataRows(pre.data)) >= 1
  /\ Len(RunRows) = 2
  /\ RowIndex(RunRows[1]) = 0 /\ RowIndex(RunRows[2]) = 1

(***************************************************************************)
(* C16  Termination of a thermistor run.  A run whose open succeeded       *)
(* eventually reaches its return with the file closed; it has then made    *)
(* exactly total_samples iterations (rows, delays) and                     *)
(* total_samples * SAMPLES conversions; with total_samples = 0 it has made *)
(* no conversion and no delay and has written no data row, only the header *)
(* when the file was empty.                                                *)
(***************************************************************************)
ThermDone == fn = Therm /\ pc = "ret" /\ result = "done"

C16_Terminates ==
  /\ [](ThermDone
          => /\ ~stream.open /\ nOpen = 0
             /\ i = samples
             /\ Len(RunRows) = samples
             /\ nDelay = samples
             /\ nConv = samples * SAMPLES
             /\ samples = 0
                  => /\ nConv = 0 /\ nDelay = 0
                     /\ wrote = IF pre.data = <<>> THEN <<HeaderText>> ELSE <<>>
                     /\ DataRows(files[path].data) = DataRows(pre.data))
  /\ \A n \in ThermSamples :
       (fn = Therm /\ pc = "t_header" /\ samples = n) ~> (ThermDone /\ samples = n)

\* a run of two rows has returned after 16 conversions
C16_Witness ==
  /\ ThermDone /\ samples = 2 /\ nConv = 2 * SAMPLES /\ nDelay = 2
  /\ ~stream.open

(***************************************************************************)
(* C17  Degenerate thermistor input.  Among the codes 0..ADC_MAX the       *)
(* divisor (Vin - VRT) is zero at ADC_MAX and nowhere else.  The averaged  *)
(* reading reaches the formula as adc_read_avg returned it: whatever it    *)
(* is, the iteration hands the row of its index to fprintf, and when the   *)
(* divisor is zero the row reads "#i, -273.15°C"; the flush and the delay  *)
(* follow and the run goes on with the next iteration.                     *)
(***************************************************************************)
ZeroDivisorCodes == {r \in 0..ADC_MAX : DivisorIsZero(r)}

\* ", -273.15°C" and the line terminator
AbsoluteZeroText == <<44, 32, 45, 50, 55, 51, 46, 49, 53, 194, 176, 67, LF>>

C17_DegenerateInput ==
  /\ ZeroDivisorCodes = {ADC_MAX}
  /\ (fn = Therm /\ pc = "t_row") => ENABLED LogThermRow
  /\ (fn = Therm /\ pc \in {"t_flush", "t_delay"})
       => /\ Len(RunRows) = i + 1
          /\ RowIndex(RunRows[i + 1]) = i
          /\ DivisorIsZero(avg)
               => After(RunRows[i + 1], Len(RunRows[i + 1]) - Len(AbsoluteZeroText))
                    = AbsoluteZeroText
          /\ pc = "t_flush" => ENABLED LogThermFlush
          /\ pc = "t_delay" => ENABLED LogThermDelay
  /\ (fn = Therm /\ pc = "t_loop" /\ i < samples) => ENABLED LogThermSample

\* the averaged reading was ADC_MAX in rows 0 and 1 of a run: both rows
\* were written, row 1 after row 0
C17_Witness ==
  /\ fn = Therm /\ pc = "t_delay" /\ i = 1 /\ avg = ADC_MAX
  /\ Len(RunRows) = 2
  /\ After(RunRows[1], Len(RunRows[1]) - Len(AbsoluteZeroText)) = AbsoluteZeroText
  /\ RowsOnStore = 2

(***************************************************************************)
(* C18  Export sets the global log level and never restores it: from the   *)
(* moment print_csv_file_only has set the level and tried to open the      *)
(* file, through both of its returns (file streamed, file missing), the    *)
(* level is WARN; and no later step of the running device changes a level  *)
(* of WARN (only a reboot does).                                           *)
(***************************************************************************)
C18_LevelStaysWarn ==
  /\ []((fn = Export /\ pc # "off") => logLevel = "WARN")
  /\ [][(logLevel = "WARN" /\ pc' # "off") => logLevel' = "WARN"]_vars

\* log_csv_sample has run at level WARN on a file that was missing when it
\* opened it: the export that set the level found the file missing and
\* returned before
C18_Witness ==
  /\ fn = Csv /\ pc = "ret" /\ result = "done"
  /\ ~pre.exists
  /\ logLevel = "WARN"

(***************************************************************************)
(* C19  Export is read-only and independent of acquisition: no step of     *)
(* print_csv_file_only or fs_print_file, the open included, changes the    *)
(* contents of any file or makes a missing file exist, and none issues an  *)
(* ADC conversion.                                                         *)
(***************************************************************************)
FsPrint == "fs_print_file"

C19_ExportReadOnly ==
  [][(fn' \in {Export, FsPrint}) => (files' = files /\ nConv' = 0)]_vars

\* fs_print_file has printed a file of several lines, and the file is as
\* it was when opened
C19_Witness ==
  /\ fn = FsPrint /\ pc = "ret" /\ result = "printed"
  /\ files[path] = pre
  /\ Len(Lines(files[path].data)) >= 2
  /\ nConv = 0

(***************************************************************************)
(* C20  No file handle leak: fs_print_file, log_csv_sample,                *)
(* log_thermistor_samples_csv and print_csv_file_only have closed the file *)
(* they opened when they return, on every return path; the mount has no    *)
(* open file between calls, at most one during a call (the one the running *)
(* call holds), and never more than max_files.                             *)
(***************************************************************************)
C20_NoHandleLeak ==
  /\ nOpen <= 1
  /\ nOpen <= max_files
  /\ nOpen = (IF stream.open THEN 1 ELSE 0)
  /\ pc \in {"idle", "ret"} => nOpen = 0
  /\ result \in {"done", "streamed", "printed", "missing", "open_failed"}
       => nOpen = 0

\* all four functions have run since boot, fs_print_file last, and no file
\* is open
C20_Witness ==
  /\ fn = FsPrint /\ pc = "ret" /\ result = "printed"
  /\ writers[path] = {Therm, Csv}
  /\ logLevel = "WARN"
  /\ nOpen = 0

====
